---- MODULE Spec2Model ----
(***************************************************************************)
(* A model of fairscale/experimental/nn/distributed_pipeline/trace.py:     *)
(* GraphCreator.create_graph (the trace-to-graph transformation) and       *)
(* _call_trace (the scoped override of RemoteModule.named_modules and      *)
(* RemoteModule.named_children around tracer.trace).                       *)
(***************************************************************************)
EXTENDS Integers, Sequences, FiniteSets, TLC

\* ----------------------------------------------------------------- bounds
\* Placeholder nodes recorded at the head of a trace.
MaxInputs == 1
\* Nodes recorded between the placeholders and the output node.
MaxBody == 3
\* The same, for the traces made of RemoteModule calls and selections only.
MaxRemoteBody == 4
\* Positional arguments of a call_module node.
MaxArgs == 2
\* Largest selection index of a getitem node.
MaxIndex == 2
\* Threads that call _call_trace, and the calls each makes.
NumThreads == 2
MaxCalls == 2
\* Resolved arguments handed to the arity pass on its own.
MaxResolved == 3

\* ------------------------------------------------------- the traced model
\* The module tree under tracer.root.  A and B are RemoteModule instances,
\* Sub is an ordinary container module; "sub.b" is a dotted path.
Modules == {"A", "B"}
IsRemoteModule(m) == m \in Modules

\* getattr(module, t): the attribute, or "AttributeError" when it is absent.
GetAttr(module, t) ==
    CASE module = "root" /\ t = "a" -> "A"
      [] module = "root" /\ t = "sub" -> "Sub"
      [] module = "Sub" /\ t = "b" -> "B"
      [] OTHER -> "AttributeError"

\* The targets a call_module node may name, each split at the dots.
RemoteTargets == {<<"a">>, <<"sub", "b">>}
Targets == RemoteTargets \cup {<<"sub">>, <<"nope">>}

\* Names a placeholder may carry, and the lists make_graph's caller may pass.
PlaceholderNames == {"x", "z"}
ArgNameLists == {<<"y", "x">>, <<"x">>}

\* ------------------------------------------------------------------ state
VARIABLES
    nodes,                  \* tracer.graph.nodes, in trace order
    arg_names,              \* create_graph's argument
    pc,                     \* where create_graph is
    node_to_data,           \* dict: node -> int | RemoteModule | (module, index)
    node_to_module,         \* dict (insertion-ordered): call_module node -> module
    module_to_num_outputs,  \* dict: module -> None | int
    layers,                 \* the add_layer calls received by the graph
    graph,                  \* "none", "created" (line 73) or "returned" (line 81)
    error,                  \* the exception create_graph raised, or "none"
    named_modules,          \* the class attribute RemoteModule.named_modules
    named_children,         \* the class attribute RemoteModule.named_children
    tpc,                    \* per thread: where its _call_trace is
    org_named_modules,      \* per thread: the local org_named_modules
    org_named_children,     \* per thread: the local org_named_children
    calls,                  \* per thread: _call_trace invocations finished
    outcome,                \* per thread: how its last tracer.trace ended
    entry_attrs,            \* per thread: the two attributes when its call began
    exit_attrs,             \* per thread: the two attributes when its call ended
    initial_attrs,          \* the two attributes before any call
    given,                  \* arity pass on its own: the resolved arguments
    todo,                   \* arity pass on its own: positions of given left
    arity_map,              \* arity pass on its own: module_to_num_outputs
    arity_err               \* arity pass on its own: the assertion that failed

graph_vars == <<nodes, arg_names, pc, node_to_data, node_to_module,
                module_to_num_outputs, layers, graph, error>>
trace_vars == <<named_modules, named_children, tpc, org_named_modules,
                org_named_children, calls, outcome, entry_attrs, exit_attrs,
                initial_attrs>>
arity_vars == <<given, todo, arity_map, arity_err>>
vars == <<graph_vars, trace_vars, arity_vars>>

\* ----------------------------------------------------- data source specs
\* node_to_data values: an int, a RemoteModule, or a (module, index) tuple.
ExternalInput(i) == [kind |-> "int", index |-> i]
WholeModuleOutput(m) == [kind |-> "module", module |-> m]
IndexedModuleOutput(m, i) == [kind |-> "tuple", module |-> m, index |-> i]

\* module_to_num_outputs values: None or an int.
None == [tag |-> "None"]
Count(n) == [tag |-> "int", n |-> n]

\* Mutants of Max: the new count overwrites the old one; the old one is kept.
MaxOverwrite(a, b) == b
MaxKeepFirst(a, b) == a

Max(a, b) == IF a >= b THEN a ELSE b

\* The empty dict.
EmptyDict == [k \in {} |-> None]

\* d[k] = v on a dict.
DictSet(d, k, v) == [j \in DOMAIN d \cup {k} |-> IF j = k THEN v ELSE d[j]]

\* ------------------------------------------------------------- exceptions
\* What create_graph raises, named by the statement that raises it.
ErrModuleResolutionFailed == "AttributeError: getattr(module, t)"
ErrNotARemoteModule == "AssertionError: isinstance(module, RemoteModule)"
ErrSelectionUnresolved == "AssertionError: node.args[0] in node_to_data"
ErrSelectionOnNonModule == "AssertionError: isinstance(d, RemoteModule)"
ErrUnknownInput == "ValueError: arg_names.index(node.target)"
ErrUnsupportedOperation == "AssertionError: False"
ErrWholeAfterIndexed == "AssertionError: module_to_num_outputs.get(data, None) is None"
ErrIndexedAfterWhole == "AssertionError: prev_value is not None"
MixedOutputAccess == {ErrWholeAfterIndexed, ErrIndexedAfterWhole}

\* ------------------------------------------------- tracer.trace(module)
\* The nodes torch.fx records: placeholders first, then the body, then one
\* output node.  Arguments refer to nodes recorded earlier.
Refs == 1 .. Len(nodes)
IsPlaceholder(n) == n.op = "placeholder"
IsModuleCall(n) == n.op = "call_module"
IsSelectElement(n) == n.op = "call_function" /\ n.target = "getitem"
IsOutput(n) == n.op = "output"
NumBody == Cardinality({i \in Refs : ~IsPlaceholder(nodes[i])})
ArgLists == UNION {[1 .. n -> Refs] : n \in 0 .. MaxArgs}

\* Node kinds create_graph does not know.
OtherNodes == {[op |-> "call_function", target |-> "add", args |-> <<>>],
               [op |-> "get_attr", target |-> "weight", args |-> <<>>]}

Record(n) ==
    /\ pc = "tracing"
    /\ nodes' = Append(nodes, n)
    /\ UNCHANGED <<arg_names, node_to_data, node_to_module,
                   module_to_num_outputs, layers, graph, error>>
    /\ UNCHANGED <<trace_vars, arity_vars>>

TracePlaceholder ==
    /\ pc = "tracing"
    /\ Len(nodes) < MaxInputs
    /\ NumBody = 0
    /\ \E name \in PlaceholderNames :
        /\ \A i \in Refs : nodes[i].target # name
        /\ Record([op |-> "placeholder", target |-> name, args |-> <<>>])
    /\ pc' = pc

TraceCallModule(targets, bound) ==
    /\ pc = "tracing"
    /\ NumBody < bound
    /\ \E target \in targets, args \in ArgLists :
        Record([op |-> "call_module", target |-> target, args |-> args])
    /\ pc' = pc

TraceGetItem(bound) ==
    /\ pc = "tracing"
    /\ NumBody < bound
    /\ \E ref \in Refs, idx \in 0 .. MaxIndex :
        Record([op |-> "call_function", target |-> "getitem", args |-> <<ref, idx>>])
    /\ pc' = pc

TraceOther ==
    /\ pc = "tracing"
    /\ NumBody < MaxBody
    /\ \E n \in OtherNodes : Record(n)
    /\ pc' = pc

TraceOutput ==
    /\ pc = "tracing"
    /\ \E args \in (IF Refs = {} THEN {<<>>} ELSE {<<r>> : r \in Refs}) :
        Record([op |-> "output", target |-> "output", args |-> args])
    /\ pc' = "traced"

\* ------------------------------------------------- GraphCreator.get_module
RECURSIVE WalkPath(_, _)
WalkPath(module, path) ==
    IF path = <<>> THEN module
    ELSE IF GetAttr(module, Head(path)) = "AttributeError" THEN "AttributeError"
    ELSE WalkPath(GetAttr(module, Head(path)), Tail(path))

get_module(node) ==
    IF node.op # "call_module" THEN "None" ELSE WalkPath("root", node.target)

\* Mutant of ListIndex: positions counted from 1.
ListIndexOneBased(names, name) ==
    IF \E p \in DOMAIN names : names[p] = name
    THEN CHOOSE p \in DOMAIN names :
            names[p] = name /\ \A q \in 1 .. (p - 1) : names[q] # name
    ELSE -1

\* list.index: the first position of name (0-based), or -1 for ValueError.
RECURSIVE ListIndex(_, _)
ListIndex(names, name) ==
    IF names = <<>> THEN -1
    ELSE IF Head(names) = name THEN 0
    ELSE IF ListIndex(Tail(names), name) = -1 THEN -1
    ELSE 1 + ListIndex(Tail(names), name)

\* ------------------------------------------- GraphCreator.create_graph
graph_unchanged == UNCHANGED <<trace_vars, arity_vars>>

Raise(e) ==
    /\ pc' = "failed"
    /\ error' = e
    /\ UNCHANGED <<nodes, layers, graph>>

\* Mutant of RecordModule: the dict is keyed by the module, not by the node.
RecordModuleOnce(modules, i, module) ==
    IF \E k \in DOMAIN modules : modules[k].module = module THEN modules
    ELSE Append(modules, [node |-> i, module |-> module])

\* node_to_module[node] = module: one entry per call_module node, in order.
RecordModule(modules, i, module) == Append(modules, [node |-> i, module |-> module])

\* Mutant of IsRemoteModuleData: only the int case is excluded.
IsNotInt(d) == d.kind # "int"

\* isinstance(d, RemoteModule) on a node_to_data value.
IsRemoteModuleData(d) == d.kind = "module"

\* Mutant of Unsupported: the node is skipped.
UnsupportedIgnored(st) == st

\* The last branch of the first loop: assert False.
Unsupported(st) == [st EXCEPT !.err = ErrUnsupportedOperation]

\* The body of the first loop for the node at position i.  st holds the two
\* dicts so far and the exception raised ("none" for none).
ResolveNode(st, names, i) ==
    LET node == nodes[i] IN
    IF node.op = "call_module" THEN
        LET module == get_module(node) IN
        IF module = "AttributeError" THEN [st EXCEPT !.err = ErrModuleResolutionFailed]
        ELSE IF ~IsRemoteModule(module) THEN [st EXCEPT !.err = ErrNotARemoteModule]
        ELSE [st EXCEPT !.data = DictSet(@, i, WholeModuleOutput(module)),
                        !.modules = RecordModule(@, i, module)]
    ELSE IF node.target = "getitem" /\ node.op = "call_function" THEN
        IF node.args[1] \notin DOMAIN st.data
        THEN [st EXCEPT !.err = ErrSelectionUnresolved]
        ELSE LET d == st.data[node.args[1]] IN
            IF ~IsRemoteModuleData(d) THEN [st EXCEPT !.err = ErrSelectionOnNonModule]
            ELSE [st EXCEPT !.data = DictSet(@, i,
                                IndexedModuleOutput(d.module, node.args[2]))]
    ELSE IF node.op = "placeholder" THEN
        IF ListIndex(names, node.target) = -1 THEN [st EXCEPT !.err = ErrUnknownInput]
        ELSE [st EXCEPT !.data = DictSet(@, i,
                            ExternalInput(ListIndex(names, node.target)))]
    ELSE IF node.op = "output" THEN st
    ELSE Unsupported(st)

\* The first loop, from position i on; it stops at the first exception.
RECURSIVE ResolveFrom(_, _, _)
ResolveFrom(st, names, i) ==
    IF i > Len(nodes) \/ st.err # "none" THEN st
    ELSE ResolveFrom(ResolveNode(st, names, i), names, i + 1)

\* create_graph(arg_names), through the first loop.
Resolve ==
    /\ pc = "traced"
    /\ \E names \in ArgNameLists :
        LET st == ResolveFrom([data |-> EmptyDict, modules |-> <<>>, err |-> "none"],
                              names, 1)
        IN /\ arg_names' = names
           /\ IF st.err # "none"
              THEN /\ Raise(st.err)
                   /\ UNCHANGED <<node_to_data, node_to_module>>
              ELSE /\ node_to_data' = st.data
                   /\ node_to_module' = st.modules
                   /\ pc' = "resolved"
                   /\ UNCHANGED <<nodes, layers, graph, error>>
    /\ UNCHANGED module_to_num_outputs
    /\ graph_unchanged

\* Mutant of ArityUpdate: a whole use after an indexed one is not asserted
\* against.
ArityUpdateNoWholeAssert(st, data) ==
    IF st.err # "none" THEN st
    ELSE IF data.kind = "int" THEN st
    ELSE IF data.kind = "module" THEN [st EXCEPT !.map = DictSet(@, data.module, None)]
    ELSE
        IF data.module \in DOMAIN st.map THEN
            IF st.map[data.module] = None
            THEN [st EXCEPT !.err = ErrIndexedAfterWhole]
            ELSE [st EXCEPT !.map = DictSet(@, data.module,
                        Count(Max(st.map[data.module].n, data.index + 1)))]
        ELSE [st EXCEPT !.map = DictSet(@, data.module, Count(data.index + 1))]

\* Mutant of ArityUpdate: an indexed use after a whole one counts from zero
\* instead of being asserted against.
ArityUpdateNoIndexedAssert(st, data) ==
    IF st.err # "none" THEN st
    ELSE IF data.kind = "int" THEN st
    ELSE IF data.kind = "module" THEN
        IF data.module \in DOMAIN st.map /\ st.map[data.module] # None
        THEN [st EXCEPT !.err = ErrWholeAfterIndexed]
        ELSE [st EXCEPT !.map = DictSet(@, data.module, None)]
    ELSE
        IF data.module \in DOMAIN st.map /\ st.map[data.module] # None
        THEN [st EXCEPT !.map = DictSet(@, data.module,
                        Count(Max(st.map[data.module].n, data.index + 1)))]
        ELSE [st EXCEPT !.map = DictSet(@, data.module, Count(data.index + 1))]

\* The body of the inner loop of the second pass, for one argument's data.
\* st is the dict so far and the assertion that failed ("none" for none).
ArityUpdate(st, data) ==
    IF st.err # "none" THEN st
    ELSE IF data.kind = "int" THEN st
    ELSE IF data.kind = "module" THEN
        IF data.module \in DOMAIN st.map /\ st.map[data.module] # None
        THEN [st EXCEPT !.err = ErrWholeAfterIndexed]
        ELSE [st EXCEPT !.map = DictSet(@, data.module, None)]
    ELSE
        IF data.module \in DOMAIN st.map THEN
            IF st.map[data.module] = None
            THEN [st EXCEPT !.err = ErrIndexedAfterWhole]
            ELSE [st EXCEPT !.map = DictSet(@, data.module,
                        Count(Max(st.map[data.module].n, data.index + 1)))]
        ELSE [st EXCEPT !.map = DictSet(@, data.module, Count(data.index + 1))]

\* The inner loop over node.args.
RECURSIVE ArityArgs(_, _)
ArityArgs(st, args) ==
    IF args = <<>> THEN st
    ELSE ArityArgs(ArityUpdate(st, node_to_data[Head(args)]), Tail(args))

\* The outer loop over node_to_module.keys(), from its k-th key on.
RECURSIVE ArityFrom(_, _)
ArityFrom(st, k) ==
    IF k > Len(node_to_module) THEN st
    ELSE ArityFrom(ArityArgs(st, nodes[node_to_module[k].node].args), k + 1)

\* The second pass.
Arity ==
    /\ pc = "resolved"
    /\ LET st == ArityFrom([map |-> EmptyDict, err |-> "none"], 1)
       IN IF st.err # "none"
          THEN /\ Raise(st.err)
               /\ UNCHANGED module_to_num_outputs
          ELSE /\ module_to_num_outputs' = st.map
               /\ pc' = "inferred"
               /\ UNCHANGED <<nodes, layers, graph, error>>
    /\ UNCHANGED <<arg_names, node_to_data, node_to_module>>
    /\ graph_unchanged

\* module_to_num_outputs.get(module)
DictGet(d, k) == IF k \in DOMAIN d THEN d[k] ELSE None

\* The layer the third loop adds for the k-th entry of node_to_module.
Layer(k) ==
    LET node == nodes[node_to_module[k].node]
        module == node_to_module[k].module
    IN [module |-> module,
        inputs |-> [a \in 1 .. Len(node.args) |-> node_to_data[node.args[a]]],
        num_outputs |-> DictGet(module_to_num_outputs, module)]

\* graph = PipelineModulesGraph() and the third loop: one add_layer per entry
\* of node_to_module, in the dict's order.
Assemble ==
    /\ pc = "inferred"
    /\ graph' = "created"
    /\ layers' = [k \in 1 .. Len(node_to_module) |-> Layer(k)]
    /\ pc' = "assembled"
    /\ UNCHANGED <<nodes, arg_names, node_to_data, node_to_module,
                   module_to_num_outputs, error>>
    /\ graph_unchanged

\* return graph
Return ==
    /\ pc = "assembled"
    /\ pc' = "done"
    /\ graph' = "returned"
    /\ UNCHANGED <<nodes, arg_names, node_to_data, node_to_module,
                   module_to_num_outputs, layers, error>>
    /\ graph_unchanged

\* ------------------------------------------------------------ _call_trace
Threads == 1 .. NumThreads

\* What RemoteModule.named_modules and RemoteModule.named_children may be
\* before tracing: RemoteModule's own definitions, or the ones inherited
\* from nn.Module.
NamedModulesValues == {"RemoteModule.named_modules", "nn.Module.named_modules"}
NamedChildrenValues == {"RemoteModule.named_children", "nn.Module.named_children"}

call_unchanged == UNCHANGED <<graph_vars, arity_vars, initial_attrs>>

\* A thread enters _call_trace: its locals are unbound.
Call(t) ==
    /\ tpc[t] = "idle"
    /\ calls[t] < MaxCalls
    /\ tpc' = [tpc EXCEPT ![t] = "save_modules"]
    /\ org_named_modules' = [org_named_modules EXCEPT ![t] = "unbound"]
    /\ org_named_children' = [org_named_children EXCEPT ![t] = "unbound"]
    /\ outcome' = [outcome EXCEPT ![t] = "none"]
    /\ entry_attrs' = [entry_attrs EXCEPT ![t] = <<named_modules, named_children>>]
    /\ UNCHANGED <<named_modules, named_children, calls, exit_attrs>>
    /\ call_unchanged

\* The same, by a caller that never overlaps two invocations.
CallExclusive(t) ==
    /\ \A u \in Threads : tpc[u] = "idle"
    /\ Call(t)

\* org_named_modules = RemoteModule.named_modules
SaveModules(t) ==
    /\ tpc[t] = "save_modules"
    /\ org_named_modules' = [org_named_modules EXCEPT ![t] = named_modules]
    /\ tpc' = [tpc EXCEPT ![t] = "save_children"]
    /\ UNCHANGED <<named_modules, named_children, org_named_children, calls,
                   outcome, entry_attrs, exit_attrs>>
    /\ call_unchanged

\* org_named_children = RemoteModule.named_children
SaveChildren(t) ==
    /\ tpc[t] = "save_children"
    /\ org_named_children' = [org_named_children EXCEPT ![t] = named_children]
    /\ tpc' = [tpc EXCEPT ![t] = "install_modules"]
    /\ UNCHANGED <<named_modules, named_children, org_named_modules, calls,
                   outcome, entry_attrs, exit_attrs>>
    /\ call_unchanged

\* RemoteModule.named_modules = nn.Module.named_modules
InstallModules(t) ==
    /\ tpc[t] = "install_modules"
    /\ named_modules' = "nn.Module.named_modules"
    /\ tpc' = [tpc EXCEPT ![t] = "install_children"]
    /\ UNCHANGED <<named_children, org_named_modules, org_named_children, calls,
                   outcome, entry_attrs, exit_attrs>>
    /\ call_unchanged

\* RemoteModule.named_children = nn.Module.named_children
InstallChildren(t) ==
    /\ tpc[t] = "install_children"
    /\ named_children' = "nn.Module.named_children"
    /\ tpc' = [tpc EXCEPT ![t] = "trace"]
    /\ UNCHANGED <<named_modules, org_named_modules, org_named_children, calls,
                   outcome, entry_attrs, exit_attrs>>
    /\ call_unchanged

\* tracer.trace(module) begins.
TraceBegin(t) ==
    /\ tpc[t] = "trace"
    /\ tpc' = [tpc EXCEPT ![t] = "tracing"]
    /\ UNCHANGED <<named_modules, named_children, org_named_modules,
                   org_named_children, calls, outcome, entry_attrs, exit_attrs>>
    /\ call_unchanged

\* tracer.trace(module) returns a graph or raises; either way the finally
\* clause runs next.
TraceEnd(t) ==
    /\ tpc[t] = "tracing"
    /\ \E how \in {"returned", "raised"} : outcome' = [outcome EXCEPT ![t] = how]
    /\ tpc' = [tpc EXCEPT ![t] = "restore_modules"]
    /\ UNCHANGED <<named_modules, named_children, org_named_modules,
                   org_named_children, calls, entry_attrs, exit_attrs>>
    /\ call_unchanged

\* Mutant of RestoreModules: the restore is skipped when tracer.trace raised.
RestoreModulesOnSuccess(t) ==
    /\ tpc[t] = "restore_modules"
    /\ named_modules' = IF outcome[t] = "raised" THEN named_modules
                        ELSE org_named_modules[t]
    /\ tpc' = [tpc EXCEPT ![t] = "restore_children"]
    /\ UNCHANGED <<named_children, org_named_modules, org_named_children, calls,
                   outcome, entry_attrs, exit_attrs>>
    /\ UNCHANGED <<graph_vars, arity_vars, initial_attrs>>

\* finally: RemoteModule.named_modules = org_named_modules
RestoreModules(t) ==
    /\ tpc[t] = "restore_modules"
    /\ named_modules' = org_named_modules[t]
    /\ tpc' = [tpc EXCEPT ![t] = "restore_children"]
    /\ UNCHANGED <<named_children, org_named_modules, org_named_children, calls,
                   outcome, entry_attrs, exit_attrs>>
    /\ call_unchanged

\* finally: RemoteModule.named_children = org_named_children; the call
\* returns or re-raises.
RestoreChildren(t) ==
    /\ tpc[t] = "restore_children"
    /\ named_children' = org_named_children[t]
    /\ tpc' = [tpc EXCEPT ![t] = "idle"]
    /\ calls' = [calls EXCEPT ![t] = @ + 1]
    /\ exit_attrs' = [exit_attrs EXCEPT ![t] = <<named_modules, named_children'>>]
    /\ UNCHANGED <<named_modules, org_named_modules, org_named_children,
                   outcome, entry_attrs>>
    /\ call_unchanged

\* The statements of _call_trace after its entry.
CallTraceBody(t) ==
    \/ SaveModules(t)
    \/ SaveChildren(t)
    \/ InstallModules(t)
    \/ InstallChildren(t)
    \/ TraceBegin(t)
    \/ TraceEnd(t)
    \/ RestoreModules(t)
    \/ RestoreChildren(t)

\* ------------------------------------------- the arity pass on its own
\* The resolved arguments the second pass may meet.
ResolvedArgs ==
    {ExternalInput(0)}
    \cup {WholeModuleOutput(m) : m \in Modules}
    \cup {IndexedModuleOutput(m, i) : m \in Modules, i \in 0 .. MaxIndex}
ResolvedLists == UNION {[1 .. n -> ResolvedArgs] : n \in 0 .. MaxResolved}

\* The inner loop's body applied to any argument not yet processed.
ProcessArg ==
    /\ arity_err = "none"
    /\ \E i \in todo :
        LET st == ArityUpdate([map |-> arity_map, err |-> arity_err], given[i])
        IN /\ arity_map' = st.map
           /\ arity_err' = st.err
           /\ todo' = todo \ {i}
    /\ UNCHANGED <<given, graph_vars, trace_vars>>

\* ------------------------------------------------------------ specification
TraceInit ==
    /\ named_modules \in NamedModulesValues
    /\ named_children \in NamedChildrenValues
    /\ initial_attrs = <<named_modules, named_children>>
    /\ tpc = [t \in Threads |-> "idle"]
    /\ org_named_modules = [t \in Threads |-> "unbound"]
    /\ org_named_children = [t \in Threads |-> "unbound"]
    /\ calls = [t \in Threads |-> 0]
    /\ outcome = [t \in Threads |-> "none"]
    /\ entry_attrs = [t \in Threads |-> initial_attrs]
    /\ exit_attrs = [t \in Threads |-> initial_attrs]

\* No thread ever calls _call_trace.
TraceIdle ==
    /\ named_modules = "RemoteModule.named_modules"
    /\ named_children = "RemoteModule.named_children"
    /\ initial_attrs = <<named_modules, named_children>>
    /\ tpc = [t \in Threads |-> "idle"]
    /\ org_named_modules = [t \in Threads |-> "unbound"]
    /\ org_named_children = [t \in Threads |-> "unbound"]
    /\ calls = [t \in Threads |-> 0]
    /\ outcome = [t \in Threads |-> "none"]
    /\ entry_attrs = [t \in Threads |-> initial_attrs]
    /\ exit_attrs = [t \in Threads |-> initial_attrs]

ArityInit ==
    /\ given \in ResolvedLists
    /\ todo = DOMAIN given
    /\ arity_map = EmptyDict
    /\ arity_err = "none"

\* The arity pass is handed nothing.
ArityIdle ==
    /\ given = <<>>
    /\ todo = {}
    /\ arity_map = EmptyDict
    /\ arity_err = "none"

GraphInit ==
    /\ nodes = <<>>
    /\ arg_names = <<>>
    /\ pc = "tracing"
    /\ node_to_data = EmptyDict
    /\ node_to_module = <<>>
    /\ module_to_num_outputs = EmptyDict
    /\ layers = <<>>
    /\ graph = "none"
    /\ error = "none"

Init == GraphInit /\ TraceIdle /\ ArityIdle

create_graph ==
    \/ Resolve
    \/ Arity
    \/ Assemble
    \/ Return

\* Traces of every node kind.
Next ==
    \/ TracePlaceholder
    \/ TraceCallModule(Targets, MaxBody)
    \/ TraceGetItem(MaxBody)
    \/ TraceOther
    \/ TraceOutput
    \/ create_graph

Spec == Init /\ [][Next]_vars

\* Traces of RemoteModule calls and selections only.
NextRemote ==
    \/ TraceCallModule(RemoteTargets, MaxRemoteBody)
    \/ TraceGetItem(MaxRemoteBody)
    \/ TraceOutput
    \/ create_graph

SpecRemote == Init /\ [][NextRemote]_vars

\* _call_trace called again and again, one invocation at a time.
NextSequential == \E t \in Threads : CallExclusive(t) \/ CallTraceBody(t)

InitCallTrace == GraphInit /\ TraceInit /\ ArityIdle

SpecSequential == InitCallTrace /\ [][NextSequential]_vars

\* _call_trace called from several threads at once.
NextConcurrent == \E t \in Threads : Call(t) \/ CallTraceBody(t)

SpecConcurrent == InitCallTrace /\ [][NextConcurrent]_vars

\* The arity pass over one list of resolved arguments, in any order.
InitArity == GraphInit /\ TraceIdle /\ ArityInit

NextArity == ProcessArg

SpecArity == InitArity /\ [][NextArity]_vars

\* ------------------------------------------------------- reading a trace
\* What follows reads the trace itself, not what create_graph made of it.
ModuleAt(i) == get_module(nodes[i])
CallNodes == {i \in Refs : IsModuleCall(nodes[i])}
OutputNodes == {i \in Refs : IsOutput(nodes[i])}

\* The call_module nodes from position i on, in trace order.
RECURSIVE CallsFrom(_)
CallsFrom(i) ==
    IF i > Len(nodes) THEN <<>>
    ELSE IF IsModuleCall(nodes[i]) THEN <<i>> \o CallsFrom(i + 1)
    ELSE CallsFrom(i + 1)
CallSeq == CallsFrom(1)

Range(f) == {f[k] : k \in DOMAIN f}
SetMax(S) == CHOOSE x \in S : \A y \in S : y <= x

\* A node kind outside Placeholder, ModuleCall, SelectElement and Output.
Unrecognised(n) ==
    ~(IsPlaceholder(n) \/ IsModuleCall(n) \/ IsSelectElement(n) \/ IsOutput(n))

\* Node i is a SelectElement applied directly to a ModuleCall node of m.
SelectsModule(i, m) ==
    /\ IsSelectElement(nodes[i])
    /\ IsModuleCall(nodes[nodes[i].args[1]])
    /\ ModuleAt(nodes[i].args[1]) = m

\* The nodes passed as an argument to some ModuleCall, or to the Output node.
CallArgRefs == UNION {Range(nodes[c].args) : c \in CallNodes}
OutputRefs == UNION {Range(nodes[o].args) : o \in OutputNodes}

\* m's result is passed whole, or index-selected, to some ModuleCall.
PassedWhole(m) == \E r \in CallArgRefs : IsModuleCall(nodes[r]) /\ ModuleAt(r) = m
PassedIndexed(m) == \E r \in CallArgRefs : SelectsModule(r, m)
\* m's result is what the Output node returns.
ReturnedWhole(m) == \E r \in OutputRefs : IsModuleCall(nodes[r]) /\ ModuleAt(r) = m

\* The indices at which m's result is selected by any SelectElement node, and
\* by the SelectElement nodes that are passed to some ModuleCall.
SelectedAt(m) == {nodes[i].args[2] : i \in {j \in Refs : SelectsModule(j, m)}}
PassedAt(m) == {nodes[i].args[2] : i \in {j \in CallArgRefs : SelectsModule(j, m)}}

\* Node j cannot be resolved: one of the structural errors of the first pass.
Bad(j) ==
    LET n == nodes[j] IN
    \/ Unrecognised(n)
    \/ IsModuleCall(n) /\ ~IsRemoteModule(ModuleAt(j))
    \/ IsPlaceholder(n) /\ n.target \notin Range(arg_names)
    \/ IsSelectElement(n) /\ ~IsModuleCall(nodes[n.args[1]])
NoBadNode == \A j \in Refs : ~Bad(j)

ResolutionErrors == {ErrModuleResolutionFailed, ErrNotARemoteModule,
                     ErrSelectionUnresolved, ErrSelectionOnNonModule,
                     ErrUnknownInput, ErrUnsupportedOperation}
Succeeded == pc \in {"inferred", "assembled", "done"}
NoGraph == graph = "none" /\ layers = <<>>

\* ----------------------------------------------------------------- claims

\* C1: a trace in which a module's result is passed whole to a ModuleCall and
\* an index-selected element of it is passed to a ModuleCall never yields a
\* graph; once the trace resolves, create_graph fails with the mixed-output
\* assertion, in whichever order the arity pass meets the two usages.
C1_MixedByCallsFails ==
    \A m \in Modules :
        PassedWhole(m) /\ PassedIndexed(m) =>
            /\ ~Succeeded
            /\ NoGraph
            /\ pc = "failed" /\ NoBadNode => error \in MixedOutputAccess

\* The indexed use is met first, by an earlier ModuleCall than the whole use.
C1_Witness ==
    /\ pc = "failed"
    /\ error = ErrWholeAfterIndexed
    /\ \E m \in Modules, c1, c2 \in CallNodes :
        /\ c1 < c2
        /\ \E r \in Range(nodes[c1].args) : SelectsModule(r, m)
        /\ \E r \in Range(nodes[c2].args) : IsModuleCall(nodes[r]) /\ ModuleAt(r) = m
        /\ \A r \in Range(nodes[c1].args) : ~IsModuleCall(nodes[r])

\* C2 as stated: in a built graph, a module never used whole and selected at
\* the index set S by the SelectElement nodes of the trace has arity
\* Count(max(S) + 1) on every one of its layers, whoever consumes the
\* SelectElement nodes.
C2_AllSelections ==
    pc = "done" =>
        \A m \in Modules :
            ~PassedWhole(m) /\ ~ReturnedWhole(m) /\ SelectedAt(m) # {} =>
                \A k \in DOMAIN layers :
                    layers[k].module = m =>
                        layers[k].num_outputs = Count(SetMax(SelectedAt(m)) + 1)

\* C2 amended: in a built graph, every layer of a module m carries
\* Count(max(S) + 1) with S the indices of the SelectElement nodes on m that
\* are passed to some ModuleCall, and None (Single) when there are none.
C2_PassedSelections ==
    pc \in {"assembled", "done"} =>
        \A k \in DOMAIN layers :
            LET m == layers[k].module IN
            layers[k].num_outputs =
                IF PassedAt(m) # {} THEN Count(SetMax(PassedAt(m)) + 1) ELSE None

\* Selections at {0, 2}, both passed to a ModuleCall, give Count(3).
C2_Witness ==
    /\ pc = "done"
    /\ \E m \in Modules :
        /\ PassedAt(m) = {0, 2}
        /\ \E k \in DOMAIN layers :
            layers[k].module = m /\ layers[k].num_outputs = Count(3)

\* C3: in a built graph there is exactly one layer per ModuleCall node, in
\* the order of the ModuleCall nodes in the trace.
C3_OneLayerPerCall ==
    pc \in {"assembled", "done"} =>
        /\ Len(layers) = Cardinality(CallNodes)
        /\ \A k \in DOMAIN layers : layers[k].module = ModuleAt(CallSeq[k])

\* One module invoked at two call sites, followed by another module.
C3_Witness ==
    /\ pc = "done"
    /\ Len(layers) = 3
    /\ layers[1].module = layers[2].module
    /\ layers[3].module # layers[1].module

\* The data source an argument reference resolves to under the rules of the
\* resolution pass.
ExpectedSource(r) ==
    LET n == nodes[r] IN
    IF IsPlaceholder(n)
    THEN ExternalInput((CHOOSE p \in DOMAIN arg_names : arg_names[p] = n.target) - 1)
    ELSE IF IsModuleCall(n) THEN WholeModuleOutput(ModuleAt(r))
    ELSE IndexedModuleOutput(ModuleAt(n.args[1]), n.args[2])

\* C4: every layer has one input per positional argument of its ModuleCall
\* node, in order, and each is the resolution of that argument: a placeholder
\* gives ExternalInput(position in arg_names), a ModuleCall node gives
\* WholeModuleOutput, a SelectElement gives IndexedModuleOutput.
C4_InputsAreResolvedArgs ==
    pc \in {"assembled", "done"} =>
        \A k \in DOMAIN layers :
            LET args == nodes[CallSeq[k]].args IN
            /\ Len(layers[k].inputs) = Len(args)
            /\ \A a \in DOMAIN args : layers[k].inputs[a] = ExpectedSource(args[a])

\* A layer fed by a selection and by the placeholder at position 1 of arg_names.
C4_Witness ==
    /\ pc = "done"
    /\ \E k \in DOMAIN layers :
        /\ Len(layers[k].inputs) = 2
        /\ layers[k].inputs[1].kind = "tuple"
        /\ layers[k].inputs[2] = ExternalInput(1)

\* C7: the build is all-or-nothing: when create_graph raises, no graph was
\* created and add_layer was never called; a trace with a node of an
\* unrecognised kind at any position never gets past the first pass.
C7_AllOrNothing ==
    /\ pc = "failed" => NoGraph /\ error \in ResolutionErrors \cup MixedOutputAccess
    /\ graph # "none" \/ layers # <<>> => error = "none"
    /\ (\E i \in Refs : Unrecognised(nodes[i])) =>
            pc \in {"tracing", "traced", "failed"} /\ NoGraph

\* An unrecognised node after two nodes that resolve.
C7_Witness ==
    /\ pc = "failed"
    /\ error = ErrUnsupportedOperation
    /\ \E i \in Refs :
        /\ i >= 3
        /\ Unrecognised(nodes[i])
        /\ \A j \in 1 .. (i - 1) : ~Bad(j)

\* C8: a SelectElement on a placeholder or on another SelectElement makes
\* create_graph fail, with the selection-on-non-module assertion when it is
\* the first node that cannot be resolved; a SelectElement directly on a
\* ModuleCall node of m with index idx resolves to IndexedModuleOutput(m, idx).
C8_SelectionOnlyOnModule ==
    /\ \A i \in Refs :
        /\ IsSelectElement(nodes[i])
        /\ IsPlaceholder(nodes[nodes[i].args[1]]) \/ IsSelectElement(nodes[nodes[i].args[1]])
        => /\ ~Succeeded /\ pc # "resolved"
           /\ pc = "failed" /\ (\A j \in 1 .. (i - 1) : ~Bad(j))
                => error = ErrSelectionOnNonModule
    /\ pc \in {"resolved", "inferred", "assembled", "done"} =>
        \A i \in Refs, m \in Modules :
            SelectsModule(i, m) =>
                /\ i \in DOMAIN node_to_data
                /\ node_to_data[i] = IndexedModuleOutput(m, nodes[i].args[2])

\* A selection applied to an already-selected value.
C8_Witness ==
    /\ pc = "failed"
    /\ error = ErrSelectionOnNonModule
    /\ \E i \in Refs :
        /\ IsSelectElement(nodes[i])
        /\ IsSelectElement(nodes[nodes[i].args[1]])
        /\ \A j \in 1 .. (i - 1) : ~Bad(j)

\* C9 as stated: a module referenced whole by any node (a ModuleCall or the
\* Output node) and index-selected by any SelectElement node makes the
\* transformation fail.
C9_AnyReference ==
    \A m \in Modules :
        (PassedWhole(m) \/ ReturnedWhole(m)) /\ SelectedAt(m) # {} =>
            /\ ~Succeeded
            /\ pc = "failed" /\ NoBadNode => error \in MixedOutputAccess

\* C9 amended: the transformation fails with the mixed-output assertion
\* exactly when some module's result is passed whole to a ModuleCall and an
\* index-selected element of it is passed to a ModuleCall; references made
\* only by the Output node are not examined.
C9_OnlyCallArguments ==
    /\ Succeeded => \A m \in Modules : ~(PassedWhole(m) /\ PassedIndexed(m))
    /\ pc = "failed" /\ error \in MixedOutputAccess =>
            \E m \in Modules : PassedWhole(m) /\ PassedIndexed(m)
    /\ pc = "failed" /\ error \in MixedOutputAccess => NoBadNode

\* Placeholder(x), ModuleCall(A, [x]), SelectElement(A, 0), ModuleCall(B,
\* [select0]), Output(A): the graph is built.
C9_Witness ==
    /\ pc = "done"
    /\ \E m \in Modules :
        /\ ReturnedWhole(m)
        /\ PassedIndexed(m)
        /\ ~PassedWhole(m)
    /\ \E i \in Refs : IsPlaceholder(nodes[i])

\* C5: with invocations that do not overlap, the override is installed
\* while tracer.trace runs, and when an invocation ends, by return or by
\* exception, both attributes hold the values they had when it began.
Installed ==
    /\ named_modules = "nn.Module.named_modules"
    /\ named_children = "nn.Module.named_children"

C5_ScopedOverride ==
    \A t \in Threads :
        /\ tpc[t] = "tracing" => Installed
        /\ tpc[t] = "idle" /\ calls[t] > 0 => exit_attrs[t] = entry_attrs[t]

\* A call whose tracer.trace raised has ended, RemoteModule's own two
\* methods back in place.
C5_Witness ==
    \E t \in Threads :
        /\ tpc[t] = "idle"
        /\ calls[t] = MaxCalls
        /\ outcome[t] = "raised"
        /\ entry_attrs[t] = <<"RemoteModule.named_modules", "RemoteModule.named_children">>
        /\ <<named_modules, named_children>> = entry_attrs[t]

\* C6: with invocations that interleave, each has the override installed
\* throughout its own tracer.trace, and once all have ended the two attributes
\* hold their values from before any tracing.
C6_ConcurrentTracingSafe ==
    /\ \A t \in Threads : tpc[t] = "tracing" => Installed
    /\ (\A t \in Threads : tpc[t] = "idle") =>
            <<named_modules, named_children>> = initial_attrs

\* The second pass's inner loop over given, in the order given.
RECURSIVE ArityInOrder(_, _)
ArityInOrder(st, args) ==
    IF args = <<>> THEN st
    ELSE ArityInOrder(ArityUpdate(st, Head(args)), Tail(args))

WholeIn(m) == \E i \in DOMAIN given : given[i] = WholeModuleOutput(m)
IndexedIn(m) ==
    {given[i].index : i \in {j \in DOMAIN given :
                                given[j].kind = "tuple" /\ given[j].module = m}}

\* C10: the arity inference does not depend on the order of the resolved
\* arguments: any order ends as the given order does, either with the same
\* map (None for a module passed whole, Count(max idx + 1) for one passed
\* indexed) or with the mixed-output assertion.
C10_OrderIndependent ==
    todo = {} \/ arity_err # "none" =>
        LET ref == ArityInOrder([map |-> EmptyDict, err |-> "none"], given) IN
        /\ arity_err # "none" <=> ref.err # "none"
        /\ arity_err # "none" <=> \E m \in Modules : WholeIn(m) /\ IndexedIn(m) # {}
        /\ arity_err # "none" => arity_err \in MixedOutputAccess
        /\ arity_err = "none" =>
            /\ arity_map = ref.map
            /\ DOMAIN arity_map = {m \in Modules : WholeIn(m) \/ IndexedIn(m) # {}}
            /\ \A m \in DOMAIN arity_map :
                arity_map[m] = IF WholeIn(m) THEN None
                               ELSE Count(SetMax(IndexedIn(m)) + 1)

\* Three selections of one module, processed in some order.
C10_Witness ==
    /\ todo = {}
    /\ arity_err = "none"
    /\ Len(given) = MaxResolved
    /\ IndexedIn("A") = {0, 1, 2}
    /\ arity_map = [m \in {"A"} |-> Count(3)]

====
